---- MODULE Spec2Model ----
(***************************************************************************)
(* Model of the quote cache of src/main.rs: the JSON parser parse_quotes,  *)
(* the TTL-gated refresh QuoteCache::get_quotes, the selector and sender   *)
(* of do_command / send_quote, and the two event handlers Handler::ready   *)
(* and Handler::message that drive them.                                   *)
(***************************************************************************)
EXTENDS Integers, Sequences, FiniteSets, TLC

\* ------------------------------------------------------------------------
\* Bounds of the model
\* ------------------------------------------------------------------------
\* Clock readings range over -PreEpoch .. MaxTime; the epoch is 0.
MaxTime == 3

PreEpoch == 1

\* Configured delays (the TTL) range over 0 .. MaxDelay.
MaxDelay == 2

\* Longest leaf array of a generated document (SpecParse).
MaxQuotes == 2

\* Message events handled concurrently on the thread pool.
NumMessages == 2

\* ------------------------------------------------------------------------
\* serde_json::Value
\* ------------------------------------------------------------------------
\* One record shape for every JSON value: t is the variant, s the payload of
\* a String, items the elements of an Array or the entries of an Object (a
\* sequence of [k, v], in the map's iteration order, keys distinct).
JNull == [t |-> "Null", s |-> "", items |-> <<>>]

JBool == [t |-> "Bool", s |-> "", items |-> <<>>]

JNumber == [t |-> "Number", s |-> "", items |-> <<>>]

JString(text) == [t |-> "String", s |-> text, items |-> <<>>]

JArray(elems) == [t |-> "Array", s |-> "", items |-> elems]

JObject(entries) == [t |-> "Object", s |-> "", items |-> entries]

KV(key, value) == [k |-> key, v |-> value]

\* ------------------------------------------------------------------------
\* OrderMap and the quote hierarchy
\* ------------------------------------------------------------------------
\* OrderMap<String, V> is a sequence of [k, v] entries in insertion order.
\* insert replaces the value of an existing key in place, else appends.
OrderMapInsert(map, key, value) ==
    IF \E i \in 1..Len(map) : map[i].k = key
    THEN [i \in 1..Len(map) |-> IF map[i].k = key THEN KV(key, value) ELSE map[i]]
    ELSE Append(map, KV(key, value))

Quote(year_key, month_key, text) == [year |-> year_key, month |-> month_key, text |-> text]

QuoteMonth(quotes) == [quotes |-> quotes]

QuoteYear(months) == [months |-> months]

\* ------------------------------------------------------------------------
\* parse_quotes
\* ------------------------------------------------------------------------
\* A quote loop that breaks at the first element that is no string.
RECURSIVE PushQuotesUntilNonString(_, _, _, _, _)
PushQuotesUntilNonString(quotes_vec, year_key, month_key, i, quotes) ==
    IF i > Len(quotes_vec) \/ quotes_vec[i].t # "String" THEN quotes
    ELSE PushQuotesUntilNonString(quotes_vec, year_key, month_key, i + 1,
            Append(quotes, Quote(year_key, month_key, quotes_vec[i].s)))

\* for quote_dto in quotes_vec: push a Quote for each Json::String.
RECURSIVE PushQuotes(_, _, _, _, _)
PushQuotes(quotes_vec, year_key, month_key, i, quotes) ==
    IF i > Len(quotes_vec) THEN quotes
    ELSE PushQuotes(quotes_vec, year_key, month_key, i + 1,
            IF quotes_vec[i].t = "String"
            THEN Append(quotes, Quote(year_key, month_key, quotes_vec[i].s))
            ELSE quotes)

\* What the month loop adds to quote_count for one Json::Array.
CountOfArray(quotes_vec) == Len(quotes_vec)

\* for (month_key, quotes_dto) in months_map; acc is [months, quote_count].
RECURSIVE MonthsLoop(_, _, _, _)
MonthsLoop(months_map, year_key, i, acc) ==
    IF i > Len(months_map) THEN acc
    ELSE LET month_key == months_map[i].k
             quotes_dto == months_map[i].v
         IN MonthsLoop(months_map, year_key, i + 1,
              IF quotes_dto.t = "Array"
              THEN [months |-> OrderMapInsert(acc.months, month_key,
                                  QuoteMonth(PushQuotes(quotes_dto.items, year_key,
                                                        month_key, 1, <<>>))),
                    quote_count |-> acc.quote_count + CountOfArray(quotes_dto.items)]
              ELSE acc)

\* for (year_key, months_dto) in years_map; acc is [years, quote_count].
RECURSIVE YearsLoop(_, _, _)
YearsLoop(years_map, i, acc) ==
    IF i > Len(years_map) THEN acc
    ELSE LET year_key == years_map[i].k
             months_dto == years_map[i].v
         IN YearsLoop(years_map, i + 1,
              IF months_dto.t = "Object"
              THEN LET m == MonthsLoop(months_dto.items, year_key, 1,
                                       [months |-> <<>>, quote_count |-> acc.quote_count])
                   IN [years |-> OrderMapInsert(acc.years, year_key, QuoteYear(m.months)),
                       quote_count |-> m.quote_count]
              ELSE acc)

\* A parser that answers a top-level value of another shape with the empty
\* collection instead of the panic.
parse_quotes_lenient(years_dto) ==
    LET r == YearsLoop(IF years_dto.t = "Object" THEN years_dto.items ELSE <<>>, 1,
                       [years |-> <<>>, quote_count |-> 0])
    IN [panic |-> FALSE, years |-> r.years, quote_count |-> r.quote_count]

\* The result (years, quote_count), or the panic "Parsing error!".
parse_quotes(years_dto) ==
    IF years_dto.t = "Object"
    THEN LET r == YearsLoop(years_dto.items, 1, [years |-> <<>>, quote_count |-> 0])
         IN [panic |-> FALSE, years |-> r.years, quote_count |-> r.quote_count]
    ELSE [panic |-> TRUE, years |-> <<>>, quote_count |-> 0]

\* ------------------------------------------------------------------------
\* Time
\* ------------------------------------------------------------------------
\* SystemTime as whole time units relative to UNIX_EPOCH; a reading before
\* the epoch is negative.
UNIX_EPOCH == 0

Times == (0 - PreEpoch)..MaxTime

Delays == 0..MaxDelay

\* A duration_since that measures the distance whichever reading is later.
duration_since_either(later, earlier) ==
    [ok |-> TRUE, dur |-> IF earlier <= later THEN later - earlier ELSE earlier - later]

\* SystemTime::duration_since: Ok(later - earlier) when earlier <= later,
\* Err when earlier is after later.
duration_since(later, earlier) ==
    IF earlier <= later THEN [ok |-> TRUE, dur |-> later - earlier]
    ELSE [ok |-> FALSE, dur |-> 0]

\* ------------------------------------------------------------------------
\* The remote source
\* ------------------------------------------------------------------------
\* What one HTTP GET of the source yields: a transport error, a body that is
\* not JSON, or a body that deserializes to a JSON value.
ResponseOf(kind, json) == [kind |-> kind, json |-> json]

NetError == ResponseOf("neterr", JNull)

BadJson == ResponseOf("badjson", JNull)

Body(json) == ResponseOf("json", json)

NoResponse == ResponseOf("none", JNull)

DocEmpty == JObject(<<>>)

DocEmptyArray == JObject(<<KV("2018", JObject(<<KV("1", JArray(<<>>))>>))>>)

DocHelloWorld ==
    JObject(<<KV("2020", JObject(<<KV("3", JArray(<<JString("hello"), JString("world")>>))>>))>>)

DocBadYear ==
    JObject(<<KV("2018", JNumber),
              KV("2019", JObject(<<KV("1", JArray(<<JString("a")>>))>>))>>)

DocBadMonth ==
    JObject(<<KV("2018", JObject(<<KV("1", JNull),
                                   KV("2", JArray(<<JString("a")>>))>>))>>)

DocNonString ==
    JObject(<<KV("2018", JObject(<<KV("1", JArray(<<JString("a"), JNumber>>))>>))>>)

DocTwoYears ==
    JObject(<<KV("2018", JObject(<<KV("1", JArray(<<JString("a")>>)),
                                   KV("2", JArray(<<JString("b"), JString("c")>>))>>)),
              KV("2019", JObject(<<KV("12", JArray(<<JString("d")>>))>>))>>)

DocMonth13 == JObject(<<KV("2018", JObject(<<KV("13", JArray(<<JString("a")>>))>>))>>)

DocTopArray == JArray(<<JString("a")>>)

DocTopNull == JNull

ObjectDocs ==
    {DocEmpty, DocEmptyArray, DocHelloWorld, DocBadYear, DocBadMonth, DocNonString,
     DocTwoYears, DocMonth13}

Docs == ObjectDocs \cup {DocTopArray, DocTopNull}

Responses == {NetError, BadJson} \cup {Body(d) : d \in Docs}

\* Every document of a bounded shape: each year key absent or mapped to a
\* number or to an object, each month key of it absent or mapped to null or
\* to an array of at most MaxQuotes elements, each a string or a number.
YearKeys == <<"2018", "2019">>

MonthKeys == <<"1", "2">>

Elems == {JString("a"), JNumber}

RECURSIVE SeqsUpTo(_, _)
SeqsUpTo(S, n) ==
    IF n = 0 THEN {<<>>}
    ELSE LET shorter == SeqsUpTo(S, n - 1)
         IN shorter \cup {Append(q, e) : q \in {x \in shorter : Len(x) = n - 1}, e \in S}

RECURSIVE EntriesOver(_, _)
EntriesOver(keys, Values) ==
    IF keys = <<>> THEN {<<>>}
    ELSE LET rest == EntriesOver(Tail(keys), Values)
         IN rest \cup {<<KV(Head(keys), v)>> \o r : v \in Values, r \in rest}

MonthValues == {JArray(q) : q \in SeqsUpTo(Elems, MaxQuotes)} \cup {JNull}

YearValues == {JObject(e) : e \in EntriesOver(MonthKeys, MonthValues)} \cup {JNumber}

GenDocs == {JObject(e) : e \in EntriesOver(YearKeys, YearValues)}

\* Top-level values of the remaining variants.
TopLevelOthers == {JString("a"), JNumber, JBool}

ParseDocs == GenDocs \cup Docs \cup TopLevelOthers

\* ------------------------------------------------------------------------
\* QuoteCache
\* ------------------------------------------------------------------------
None == [some |-> FALSE, years |-> <<>>]

Some(years) == [some |-> TRUE, years |-> years]

\* reqwest::Url::parse(&self.request_url) succeeds.
UrlParses(request_url) == request_url = "valid"

\* serde_json::from_str(&reqwest::get(url)?.text()?)? : Ok(json), or the
\* CacheRetrievalError converted from the reqwest or serde_json error.
perform_request(response) ==
    IF response.kind = "json" THEN [ok |-> TRUE, json |-> response.json]
    ELSE [ok |-> FALSE, json |-> JNull]

\* Expired with the delay forgotten: every call at or after the last request
\* refreshes.
ExpiredIgnoringDelay(self, now) == duration_since(now, self.last_request_time).ok

\* Expired with > for >=: no refresh when exactly the delay has elapsed.
ExpiredStrictly(self, now) ==
    LET d == duration_since(now, self.last_request_time)
    IN d.ok /\ d.dur > self.delay

\* Expired that refreshes only a cache without a snapshot.
ExpiredOnlyWhenEmpty(self, now) ==
    LET d == duration_since(now, self.last_request_time)
    IN d.ok /\ d.dur >= self.delay /\ ~self.cache.some

\* if let Ok(dur) = now.duration_since(last_request_time) { if dur >= delay
Expired(self, now) ==
    LET d == duration_since(now, self.last_request_time)
    IN d.ok /\ d.dur >= self.delay

\* A refresh that forgets the timestamp.
StampNothing(self, now) == self

\* self.last_request_time = now, ahead of the request.
Stamp(self, now) == [self EXCEPT !.last_request_time = now]

\* StoreParsed that forgets the second assignment: the count stays the old one.
StoreParsedKeepsSize(self, json) ==
    LET p == parse_quotes(json)
    IN IF p.panic THEN [self |-> self, panic |-> TRUE]
       ELSE [self |-> [self EXCEPT !.cache = Some(p.years)], panic |-> FALSE]

\* The Ok(json) arm: both fields are assigned from one parse result; a
\* panicking parse_quotes unwinds before either assignment.
StoreParsed(self, json) ==
    LET p == parse_quotes(json)
    IN IF p.panic THEN [self |-> self, panic |-> TRUE]
       ELSE [self |-> [self EXCEPT !.cache = Some(p.years),
                                   !.cache_size = p.quote_count],
             panic |-> FALSE]

\* An Err arm that drops the snapshot it can no longer refresh.
RetrievalFailedClears(self) == [self EXCEPT !.cache = None, !.cache_size = 0]

\* An Err arm that rewinds the timestamp so that the next call retries.
RetrievalFailedRewinds(self) == [self EXCEPT !.last_request_time = UNIX_EPOCH]

\* The Err(err) arm: eprintln! only.
RetrievalFailed(self) == self

\* A return that never reports the empty cache.
ResultAlwaysOk(self) == "Ok"

\* The value get_quotes returns: Ok(&contents) or Err(CacheError).
ResultOf(self) == IF self.cache.some THEN "Ok" ELSE "Err"

\* get_quotes on the cache `self`, with the clock reading `now` and the
\* response the source would give.  Yields the cache afterwards, the number
\* of fetch attempts (the refresh branch taken: the request is built and, if
\* the URL parses, sent), the response consumed, and ret: "Ok", "Err" or
\* "panic".
get_quotes(self, now, response) ==
    IF Expired(self, now)
    THEN LET s1 == Stamp(self, now)
         IN IF ~UrlParses(self.request_url)
            THEN [self |-> s1, attempts |-> 1, response |-> NoResponse, ret |-> "panic"]
            ELSE LET r == perform_request(response)
                 IN IF r.ok
                    THEN LET st == StoreParsed(s1, r.json)
                         IN [self |-> st.self, attempts |-> 1, response |-> response,
                             ret |-> IF st.panic THEN "panic" ELSE ResultOf(st.self)]
                    ELSE LET s2 == RetrievalFailed(s1)
                         IN [self |-> s2, attempts |-> 1, response |-> response,
                             ret |-> ResultOf(s2)]
    ELSE [self |-> self, attempts |-> 0, response |-> NoResponse, ret |-> ResultOf(self)]

\* ------------------------------------------------------------------------
\* send_quote
\* ------------------------------------------------------------------------
MONTHS == <<"January", "February", "March", "April", "May", "June",
            "July", "August", "September", "October", "November", "December">>

\* Decimal[n] is the decimal text of n, for 1 <= n <= 13.
Decimal == <<"1", "2", "3", "4", "5", "6", "7", "8", "9", "10", "11", "12", "13">>

\* str::parse::<usize> on the month labels of the documents: Ok(n) for the
\* decimal text of n, Err for anything else.
parse_usize(text) ==
    IF text = "0" THEN [ok |-> TRUE, n |-> 0]
    ELSE IF \E n \in 1..Len(Decimal) : Decimal[n] = text
    THEN [ok |-> TRUE, n |-> CHOOSE n \in 1..Len(Decimal) : Decimal[n] = text]
    ELSE [ok |-> FALSE, n |-> 0]

NoPayload == [some |-> FALSE, text |-> "", month |-> "", year |-> ""]

\* MONTHS[quote.month.parse::<usize>().unwrap() - 1], then the embed handed to
\* send_message, whose own failure is only logged.  unwrap panics on a label
\* that is no number; label 0 underflows the subtraction or the index, and a
\* label above 12 is out of the table's bounds: all of them panic.
send_quote(quote, send_ok) ==
    LET parsed == parse_usize(quote.month)
    IN IF ~parsed.ok \/ parsed.n - 1 < 0 \/ parsed.n - 1 >= Len(MONTHS)
       THEN [outcome |-> "panic_month", sent |-> NoPayload]
       ELSE [outcome |-> IF send_ok THEN "sent" ELSE "send_failed",
             sent |-> [some |-> TRUE, text |-> quote.text,
                       month |-> MONTHS[(parsed.n - 1) + 1], year |-> quote.year]]

\* ------------------------------------------------------------------------
\* do_command
\* ------------------------------------------------------------------------
\* A &Quote is the position of the quote in the hierarchy.
Ref(y, m, q) == [y |-> y, m |-> m, q |-> q]

Deref(years, ref) == years[ref.y].v.months[ref.m].v.quotes[ref.q]

\* A flattening that takes one quote of each month.
RECURSIVE FlatQuotesFirstOnly(_, _, _, _, _)
FlatQuotesFirstOnly(years, y, m, q, quotes_flat) ==
    IF q > Len(years[y].v.months[m].v.quotes) THEN quotes_flat
    ELSE Append(quotes_flat, Ref(y, m, q))

\* for quote in &month.quotes { quotes_flat.push(Box::new(quote)) }
RECURSIVE FlatQuotes(_, _, _, _, _)
FlatQuotes(years, y, m, q, quotes_flat) ==
    IF q > Len(years[y].v.months[m].v.quotes) THEN quotes_flat
    ELSE FlatQuotes(years, y, m, q + 1, Append(quotes_flat, Ref(y, m, q)))

\* for (_, month) in &year.months
RECURSIVE FlatMonths(_, _, _, _)
FlatMonths(years, y, m, quotes_flat) ==
    IF m > Len(years[y].v.months) THEN quotes_flat
    ELSE FlatMonths(years, y, m + 1, FlatQuotes(years, y, m, 1, quotes_flat))

\* for (_, year) in quotes
RECURSIVE FlatYears(_, _, _)
FlatYears(years, y, quotes_flat) ==
    IF y > Len(years) THEN quotes_flat
    ELSE FlatYears(years, y + 1, FlatMonths(years, y, 1, quotes_flat))

Flatten(years) == FlatYears(years, 1, <<>>)

\* The values gen_range(0, len) can return inside Rng::choose.
PickIndexes(quotes_flat) ==
    IF Len(quotes_flat) = 0 THEN {0} ELSE 0..(Len(quotes_flat) - 1)

\* Rng::choose: None on an empty slice, else the element at the drawn index.
choose(quotes_flat, index) ==
    IF Len(quotes_flat) = 0 THEN [some |-> FALSE, ref |-> Ref(0, 0, 0)]
    ELSE [some |-> TRUE, ref |-> quotes_flat[index + 1]]

NoArgs == [some |-> FALSE, query |-> ""]

SomeArgs(query) == [some |-> TRUE, query |-> query]

Args == {NoArgs, SomeArgs(""), SomeArgs("2018")}

\* The query stub of do_command: a non-empty query returns before the draw.
Unimplemented(args) == args.some /\ args.query # ""

\* do_command, g being its call cache.get_quotes() (the first statement):
\* then the query stub, the flattening, the draw and the send.  Yields the
\* record of the get_quotes call with the cache afterwards, and the outcome
\* of the command.
do_command(g, args, index, send_ok) ==
       IF g.ret = "panic"
       THEN [g |-> g, outcome |-> "panic_refresh", sent |-> NoPayload,
             flat |-> <<>>, pick |-> choose(<<>>, 0)]
       ELSE IF g.ret = "Ok"
       THEN IF Unimplemented(args)
            THEN [g |-> g, outcome |-> "noop", sent |-> NoPayload,
                  flat |-> <<>>, pick |-> choose(<<>>, 0)]
            ELSE LET quotes_flat == Flatten(g.self.cache.years)
                     quote == choose(quotes_flat, index)
                 IN IF ~quote.some
                    THEN [g |-> g, outcome |-> "panic_unwrap", sent |-> NoPayload,
                          flat |-> quotes_flat, pick |-> quote]
                    ELSE LET s == send_quote(Deref(g.self.cache.years, quote.ref), send_ok)
                         IN [g |-> g, outcome |-> s.outcome, sent |-> s.sent,
                             flat |-> quotes_flat, pick |-> quote]
       ELSE [g |-> g, outcome |-> "panic_null", sent |-> NoPayload,
             flat |-> <<>>, pick |-> choose(<<>>, 0)]

\* ------------------------------------------------------------------------
\* State
\* ------------------------------------------------------------------------
VARIABLES
    phase,              \* "start": before ready; "running": QuoteCache inserted
                        \* into ctx.data; "failed": ready panicked, no QuoteCache
    request_url,        \* QuoteCache.request_url: "valid" or "invalid"
    delay,              \* QuoteCache.delay
    last_request_time,  \* QuoteCache.last_request_time
    cache,              \* QuoteCache.cache
    cache_size,         \* QuoteCache.cache_size
    gq,                 \* the get_quotes call of the latest handler, if any
    cmd,                \* the latest handler and what it did
    attempted,          \* history: the clock reading of the latest fetch attempt
    document,           \* SpecParse: the argument of parse_quotes
    parsed,             \* SpecParse: what parse_quotes made of it, once called
    clock,              \* SpecLive, SpecThreads: the system clock
    source,             \* SpecLive: what the remote source answers at present
    flips,              \* SpecLive: parity of the number of fetch attempts
    lock,               \* SpecThreads: the holder of the ctx.data mutex, 0 if free
    th                  \* SpecThreads: the handler running on each pool thread

vars ==
    <<phase, request_url, delay, last_request_time, cache, cache_size, gq, cmd,
      attempted, document, parsed, clock, source, flips, lock, th>>

liveVars == <<clock, source, flips>>

threadVars == <<lock, th>>

Self ==
    [last_request_time |-> last_request_time, cache |-> cache, cache_size |-> cache_size,
     request_url |-> request_url, delay |-> delay]

NoCall == [called |-> FALSE, now |-> 0, attempts |-> 0, response |-> NoResponse, ret |-> "none"]

CallOf(now, g) ==
    [called |-> TRUE, now |-> now, attempts |-> g.attempts, response |-> g.response,
     ret |-> g.ret]

NoPick == choose(<<>>, 0)

NotParsed == [done |-> FALSE, panic |-> FALSE, years |-> <<>>, quote_count |-> 0]

HandlerRecord(handler, kind, args, outcome, sent, flat, pick) ==
    [handler |-> handler, kind |-> kind, args |-> args, outcome |-> outcome,
     sent |-> sent, flat |-> flat, pick |-> pick]

\* The source answers only a request that is made.
ResponsesAmong(self, now, responses) ==
    IF Expired(self, now) /\ UrlParses(self.request_url) THEN responses ELSE {NoResponse}

ResponsesFor(self, now) == ResponsesAmong(self, now, Responses)

NeverAttempted == [some |-> FALSE, at |-> 0]

\* The history after a get_quotes call g made at the reading now.
AttemptedAfter(before, now, g) ==
    IF g.attempts = 1 THEN [some |-> TRUE, at |-> now] ELSE before

\* Placeholders of the variables a specification does not use.
SourceUnused == [response |-> NoResponse, healed |-> FALSE]

LiveUnused == clock = 0 /\ source = SourceUnused /\ flips = 0

ThreadsUnused == lock = 0 /\ th = <<>>

\* main read the configuration; ready will build the cache with
\* last_request_time = UNIX_EPOCH, cache = None, cache_size = 0.
Init ==
    /\ phase = "start"
    /\ request_url \in {"valid", "invalid"}
    /\ delay \in Delays
    /\ last_request_time = UNIX_EPOCH
    /\ cache = None
    /\ cache_size = 0
    /\ gq = NoCall
    /\ cmd = HandlerRecord("none", "none", NoArgs, "none", NoPayload, <<>>, NoPick)
    /\ attempted = NeverAttempted
    /\ document = JNull
    /\ parsed = NotParsed
    /\ LiveUnused
    /\ ThreadsUnused

StoreSelf(self) ==
    /\ last_request_time' = self.last_request_time
    /\ cache' = self.cache
    /\ cache_size' = self.cache_size
    /\ UNCHANGED <<request_url, delay, document, parsed>>

\* Handler::ready at the clock reading now, the source answering with one
\* of responses: build the cache, populate it, insert it into ctx.data unless
\* get_quotes panicked or returned Err ("Initial cache population failed!").
ReadyAt(now, responses) ==
    /\ phase = "start"
    /\ \E response \in ResponsesAmong(Self, now, responses) :
       \E g \in {get_quotes(Self, now, response)} :
             /\ StoreSelf(g.self)
             /\ gq' = CallOf(now, g)
             /\ attempted' = AttemptedAfter(attempted, now, g)
             /\ phase' = IF g.ret = "Ok" THEN "running" ELSE "failed"
             /\ cmd' = HandlerRecord("ready", "ready", NoArgs,
                          IF g.ret = "Ok" THEN "inserted"
                          ELSE IF g.ret = "Err" THEN "panic_initial" ELSE "panic_refresh",
                          NoPayload, <<>>, NoPick)

Ready ==
    /\ \E now \in Times : ReadyAt(now, Responses)
    /\ UNCHANGED <<liveVars, threadVars>>

\* The generator and the messaging service answer only when asked: the draws
\* and the send outcomes a command can consume after its get_quotes call g.
DrawsFor(g, args) ==
    IF g.ret = "Ok" /\ ~Unimplemented(args)
    THEN PickIndexes(Flatten(g.self.cache.years)) ELSE {0}

SendsFor(g, args) ==
    IF g.ret = "Ok" /\ ~Unimplemented(args) /\ Len(Flatten(g.self.cache.years)) > 0
    THEN BOOLEAN ELSE {TRUE}

\* Handler::message for a message of a non-bot author that the prefix
\* matches, at the clock reading now, the source answering with one of
\* responses: do_command under the ctx.data lock.
CommandAt(now, responses) ==
    /\ phase = "running"
    /\ \E args \in Args :
       \E response \in ResponsesAmong(Self, now, responses) :
       \E g \in {get_quotes(Self, now, response)} :
       \E index \in DrawsFor(g, args), send_ok \in SendsFor(g, args) :
       \E r \in {do_command(g, args, index, send_ok)} :
          /\ StoreSelf(r.g.self)
          /\ gq' = CallOf(now, r.g)
          /\ attempted' = AttemptedAfter(attempted, now, r.g)
          /\ cmd' = HandlerRecord("message", "command", args, r.outcome,
                                  r.sent, r.flat, r.pick)
          /\ UNCHANGED phase

MessageCommand ==
    /\ \E now \in Times : CommandAt(now, Responses)
    /\ UNCHANGED <<liveVars, threadVars>>

\* Handler::message for a matching message after ready panicked:
\* data.get_mut::<QuoteCache>().unwrap() panics before do_command runs.
MessageNoCache ==
    /\ phase = "failed"
    /\ \E args \in Args :
          cmd' = HandlerRecord("message", "command", args, "panic_nocache",
                               NoPayload, <<>>, NoPick)
    /\ gq' = NoCall
    /\ UNCHANGED <<phase, request_url, delay, last_request_time, cache, cache_size,
                   attempted, document, parsed, liveVars, threadVars>>

\* Handler::message for every other message: a bot's message is ignored, an
\* unmatched private message gets HELP_TEXT, an unmatched public one nothing.
MessageOther ==
    /\ phase # "start"
    /\ \E kind \in {"bot", "private", "public"} :
          cmd' = HandlerRecord("message", kind, NoArgs,
                               IF kind = "private" THEN "help" ELSE "ignored",
                               NoPayload, <<>>, NoPick)
    /\ gq' = NoCall
    /\ UNCHANGED <<phase, request_url, delay, last_request_time, cache, cache_size,
                   attempted, document, parsed, liveVars, threadVars>>

Message == MessageCommand \/ MessageNoCache \/ MessageOther

Next == Ready \/ Message

Spec == Init /\ [][Next]_vars

\* ------------------------------------------------------------------------
\* parse_quotes on its own
\* ------------------------------------------------------------------------
InitParse ==
    /\ phase = "start"
    /\ request_url = "valid"
    /\ delay = 0
    /\ last_request_time = UNIX_EPOCH
    /\ cache = None
    /\ cache_size = 0
    /\ gq = NoCall
    /\ cmd = HandlerRecord("none", "none", NoArgs, "none", NoPayload, <<>>, NoPick)
    /\ attempted = NeverAttempted
    /\ document \in ParseDocs
    /\ parsed = NotParsed
    /\ LiveUnused
    /\ ThreadsUnused

\* One call parse_quotes(document).
Parse ==
    /\ ~parsed.done
    /\ \E p \in {parse_quotes(document)} :
          parsed' = [done |-> TRUE, panic |-> p.panic, years |-> p.years,
                     quote_count |-> p.quote_count]
    /\ UNCHANGED <<phase, request_url, delay, last_request_time, cache, cache_size,
                   gq, cmd, attempted, document, liveVars, threadVars>>

SpecParse == InitParse /\ [][Parse]_vars

\* ------------------------------------------------------------------------
\* Properties of get_quotes
\* ------------------------------------------------------------------------
\* The positions of the quotes a hierarchy holds.
Positions(years) ==
    UNION {UNION {{Ref(y, m, q) : q \in 1..Len(years[y].v.months[m].v.quotes)} :
                  m \in 1..Len(years[y].v.months)} :
           y \in 1..Len(years)}

\* The number of quotes a snapshot holds, 0 for an absent one.
HeldQuotes(snapshot) ==
    IF snapshot.some THEN Cardinality(Positions(snapshot.years)) ELSE 0

FetchFailed(call) == call.attempts = 1 /\ call.response.kind \in {"neterr", "badjson"}

FetchedJson(call) == call.attempts = 1 /\ call.response.kind = "json"

\* C1: a get_quotes call whose clock reading is less than the delay after
\* last_request_time attempts no fetch, leaves cache, cache_size and
\* last_request_time as they were, and returns the snapshot it found (the
\* error when there is none).
C1_NoRefreshWithinTtl ==
    [][(gq'.called /\ gq'.now - last_request_time < delay) =>
          /\ gq'.attempts = 0
          /\ cache' = cache
          /\ cache_size' = cache_size
          /\ last_request_time' = last_request_time
          /\ gq'.ret = IF cache.some THEN "Ok" ELSE "Err"]_vars

C1_Witness ==
    /\ cmd.handler = "message"
    /\ gq.called /\ gq.attempts = 0 /\ gq.ret = "Ok"
    /\ gq.now >= last_request_time
    /\ gq.now - last_request_time = delay - 1
    /\ cache.some

\* C2: a get_quotes call whose clock reading is at least the delay after
\* last_request_time (exactly the delay included, and any reading at or after
\* last_request_time when the delay is 0) attempts one fetch.
C2_RefreshWhenTtlElapsed ==
    [][(gq'.called /\ gq'.now - last_request_time >= delay) => gq'.attempts = 1]_vars

C2_Witness ==
    /\ cmd.handler = "message"
    /\ gq.called /\ gq.attempts = 1 /\ gq.response.kind = "json"
    /\ delay > 0
    /\ last_request_time = gq.now

\* C3: when the fetch of a refresh fails (transport error, or a body that is
\* not JSON), cache and cache_size are unchanged, last_request_time is the
\* clock reading of the call, and a snapshot that existed is returned.
C3_StaleOnFetchFailure ==
    [][(gq'.called /\ FetchFailed(gq')) =>
          /\ cache' = cache
          /\ cache_size' = cache_size
          /\ last_request_time' = gq'.now
          /\ (cache.some => gq'.ret = "Ok")]_vars

C3_Witness ==
    /\ cmd.handler = "message"
    /\ gq.called /\ FetchFailed(gq) /\ gq.ret = "Ok"
    /\ cache.some
    /\ last_request_time = gq.now

\* C4: a refresh of a cache holding a snapshot that receives a document that
\* fails to parse (not JSON, or JSON whose top-level value is no object) does
\* not fault: get_quotes returns the previous snapshot, left as it was.
C4_ParseFailureNonFatal ==
    [][(/\ gq'.called /\ cache.some /\ gq'.attempts = 1
        /\ \/ gq'.response.kind = "badjson"
           \/ gq'.response.kind = "json" /\ gq'.response.json.t # "Object") =>
          (gq'.ret = "Ok" /\ cache' = cache)]_vars

\* C5: cache_size is the number of quotes the snapshot holds, 0 when it is
\* absent.
C5_SizeIsQuoteCount == cache_size = HeldQuotes(cache)

\* C6: a get_quotes call whose fetch and parse succeed leaves exactly the
\* parse of the fetched document as the snapshot and its count as the count;
\* every other call leaves both as they were.
C6_ReplacedTogether ==
    [][gq'.called =>
          LET replaced == FetchedJson(gq') /\ gq'.response.json.t = "Object"
              p == parse_quotes(gq'.response.json)
          IN /\ replaced => cache' = Some(p.years) /\ cache_size' = p.quote_count
             /\ ~replaced => cache' = cache /\ cache_size' = cache_size]_vars

C6_Witness ==
    /\ cmd.handler = "message"
    /\ gq.called /\ gq.response = Body(DocHelloWorld)
    /\ cache = Some(<<KV("2020", QuoteYear(<<KV("3", QuoteMonth(
                   <<Quote("2020", "3", "hello"), Quote("2020", "3", "world")>>))>>))>>)
    /\ cache_size = 2

\* C7: a get_quotes call that returns, returns Ok exactly when a snapshot is
\* present after its refresh step and Err (the empty cache) otherwise; the
\* first call of ready returns Err when its fetch fails.
C7_OkIffSnapshot ==
    gq.called =>
        /\ gq.ret \in {"Ok", "Err", "panic"}
        /\ gq.ret # "panic" => (gq.ret = "Ok" <=> cache.some)
        /\ (cmd.handler = "ready" /\ FetchFailed(gq)) => gq.ret = "Err"

C7_Witness ==
    /\ cmd.handler = "ready"
    /\ gq.called /\ FetchFailed(gq) /\ gq.ret = "Err"
    /\ ~cache.some

\* ------------------------------------------------------------------------
\* Properties of the selection
\* ------------------------------------------------------------------------
\* The command got its snapshot and went on to flatten it and draw.
Selected == cmd.kind = "command" /\ gq.ret = "Ok" /\ ~Unimplemented(cmd.args)

\* C8: a command with an empty query on a snapshot that holds no quote sends
\* nothing and does not panic.
C8_EmptySelectionNoFault ==
    (Selected /\ Positions(cache.years) = {}) =>
        /\ ~cmd.sent.some
        /\ cmd.outcome \notin {"panic_unwrap", "panic_month", "panic_null", "panic_refresh"}

\* C9: over a snapshot that holds quotes, the flattened population holds the
\* position of every quote of every year and month once and nothing else, the
\* draw is one position of that population, and a message that is sent shows
\* the quote at that position.
C9_PopulationIsSnapshot ==
    (Selected /\ Positions(cache.years) # {}) =>
        /\ \A i \in 1..Len(cmd.flat) : cmd.flat[i] \in Positions(cache.years)
        /\ \A ref \in Positions(cache.years) :
              Cardinality({i \in 1..Len(cmd.flat) : cmd.flat[i] = ref}) = 1
        /\ cmd.pick.some
        /\ \E i \in 1..Len(cmd.flat) : cmd.pick.ref = cmd.flat[i]
        /\ cmd.sent.some =>
              /\ cmd.sent.text = Deref(cache.years, cmd.pick.ref).text
              /\ cmd.sent.year = Deref(cache.years, cmd.pick.ref).year

C9_Witness ==
    /\ Selected
    /\ gq.response = Body(DocTwoYears)
    /\ Len(cmd.flat) = 4
    /\ cmd.pick = [some |-> TRUE, ref |-> Ref(2, 1, 1)]
    /\ cmd.outcome = "sent"
    /\ cmd.sent = [some |-> TRUE, text |-> "d", month |-> "December", year |-> "2019"]

\* ------------------------------------------------------------------------
\* Properties of parse_quotes
\* ------------------------------------------------------------------------
IsString(json) == json.t = "String"

HasObject(entry) == entry.v.t = "Object"

HasArray(entry) == entry.v.t = "Array"

\* The quotes of the strings of one leaf array, in the array's order.
QuotesOf(year_key, month_key, elems) ==
    LET strings == SelectSeq(elems, IsString)
    IN [i \in 1..Len(strings) |-> Quote(year_key, month_key, strings[i].s)]

\* Y years, each an object of M months, each an array of Q strings.
WellFormed(json, Y, M, Q) ==
    /\ json.t = "Object"
    /\ Len(json.items) = Y
    /\ \A y \in 1..Y :
          /\ json.items[y].v.t = "Object"
          /\ Len(json.items[y].v.items) = M
          /\ \A m \in 1..M :
                /\ json.items[y].v.items[m].v.t = "Array"
                /\ Len(json.items[y].v.items[m].v.items) = Q
                /\ \A q \in 1..Q : IsString(json.items[y].v.items[m].v.items[q])

\* C10: for a document whose top-level value is an object, the parsed
\* collection has one year per year key mapped to an object, under it one
\* month per month key mapped to an array, and under it one quote per string
\* of the array, carrying the year key, the month key and the string; entries
\* of another shape are left out and their siblings kept.  For Y years of M
\* months of Q strings the count is Y*M*Q.
C10_ParseMatchesSource ==
    (parsed.done /\ document.t = "Object") =>
        LET year_entries == SelectSeq(document.items, HasObject)
        IN /\ ~parsed.panic
           /\ Len(parsed.years) = Len(year_entries)
           /\ \A y \in 1..Len(year_entries) :
                 LET month_entries == SelectSeq(year_entries[y].v.items, HasArray)
                     months == parsed.years[y].v.months
                 IN /\ parsed.years[y].k = year_entries[y].k
                    /\ Len(months) = Len(month_entries)
                    /\ \A m \in 1..Len(month_entries) :
                          /\ months[m].k = month_entries[m].k
                          /\ months[m].v.quotes =
                                QuotesOf(year_entries[y].k, month_entries[m].k,
                                         month_entries[m].v.items)
           /\ \A Y \in 0..Len(YearKeys), M \in 0..Len(MonthKeys), Q \in 0..(MaxQuotes + 1) :
                 WellFormed(document, Y, M, Q) =>
                    /\ parsed.quote_count = Y * M * Q
                    /\ Cardinality(Positions(parsed.years)) = Y * M * Q

C10_Witness ==
    /\ parsed.done
    /\ document =
          JObject(<<KV("2018", JNumber),
                    KV("2019", JObject(<<KV("1", JNull),
                                         KV("2", JArray(<<JNumber, JString("a")>>))>>))>>)
    /\ parsed.years =
          <<KV("2019", QuoteYear(<<KV("2", QuoteMonth(<<Quote("2019", "2", "a")>>))>>))>>

\* C11: parse_quotes of a document whose top-level value is no object (an
\* array, a string, a number, a boolean or null) ends in the panic and yields
\* no collection and no count.
C11_NonObjectIsFatal ==
    (parsed.done /\ document.t # "Object") =>
        (parsed.panic /\ parsed.years = <<>> /\ parsed.quote_count = 0)

C11_Witness ==
    /\ parsed.done /\ parsed.panic
    /\ document = JArray(<<JString("a")>>)

\* C12: every fetch attempt leaves last_request_time at its own clock
\* reading, whatever the fetch then does (success, failure, panic), and the
\* reading of an attempt is at least the delay after the reading of the
\* attempt before it.
C12_AttemptsSpacedByTtl ==
    [][(gq'.called /\ gq'.attempts = 1) =>
          /\ last_request_time' = gq'.now
          /\ attempted.some => gq'.now - attempted.at >= delay]_vars

C12_Witness ==
    /\ cmd.handler = "message"
    /\ gq.called /\ gq.attempts = 1 /\ gq.ret = "panic"
    /\ delay = 1
    /\ gq.now = 3
    /\ attempted = [some |-> TRUE, at |-> 3]
    /\ last_request_time = 3

\* C13: the get_quotes call of ready, on the cache just built (no snapshot,
\* last_request_time at the epoch), attempts a fetch whatever the delay.
C13_FirstCallFetches == (cmd.handler = "ready" /\ gq.called) => gq.attempts = 1

\* C15: a command with a non-empty query does nothing: no message, no fetch
\* attempt, and cache, cache_size and last_request_time as they were.
C15_QueryIsNoOp ==
    [][(cmd'.kind = "command" /\ Unimplemented(cmd'.args) /\ gq'.called) =>
          /\ ~cmd'.sent.some
          /\ gq'.attempts = 0
          /\ cache' = cache
          /\ cache_size' = cache_size
          /\ last_request_time' = last_request_time]_vars

\* A get_quotes call whose fetch and parse both succeeded.
Refreshed(call) == FetchedJson(call) /\ call.response.json.t = "Object"

\* C17 as stated: the cache changes only in a refresh; a refresh that
\* succeeds replaces the snapshot and advances last_request_time, and one that
\* does not leaves the snapshot and last_request_time as they were.
C17_FailureLeavesTimestamp ==
    [][/\ ~(gq'.called /\ gq'.attempts = 1) =>
             UNCHANGED <<cache, cache_size, last_request_time>>
       /\ (gq'.called /\ gq'.attempts = 1 /\ Refreshed(gq')) =>
             /\ cache' = Some(parse_quotes(gq'.response.json).years)
             /\ last_request_time' = gq'.now
       /\ (gq'.called /\ gq'.attempts = 1 /\ ~Refreshed(gq')) =>
             UNCHANGED <<cache, last_request_time>>]_vars

\* C17 as amended: the cache changes only in a refresh attempt of get_quotes;
\* every attempt moves last_request_time to its clock reading, never
\* backwards; one whose fetch and parse succeed replaces snapshot and count,
\* and every other one (fetch error, panic) leaves snapshot and count as they
\* were.
C17_AttemptAlwaysStamps ==
    [][/\ ~(gq'.called /\ gq'.attempts = 1) =>
             UNCHANGED <<cache, cache_size, last_request_time>>
       /\ (gq'.called /\ gq'.attempts = 1) =>
             /\ last_request_time' = gq'.now
             /\ last_request_time' >= last_request_time
       /\ (gq'.called /\ gq'.attempts = 1 /\ Refreshed(gq')) =>
             /\ cache' = Some(parse_quotes(gq'.response.json).years)
             /\ cache_size' = parse_quotes(gq'.response.json).quote_count
       /\ (gq'.called /\ gq'.attempts = 1 /\ ~Refreshed(gq')) =>
             UNCHANGED <<cache, cache_size>>]_vars

C17_Witness ==
    /\ cmd.handler = "message"
    /\ gq.called /\ FetchFailed(gq)
    /\ cache.some
    /\ gq.now = 3
    /\ last_request_time = 3

\* C18: a snapshot that is present stays present; the cache is in ctx.data
\* only with a snapshot, and no command ends in "Cache was null at command!".
C18_SnapshotNeverLost ==
    /\ [](/\ phase = "running" => cache.some
          /\ cmd.outcome # "panic_null"
          /\ (cmd.kind = "command" /\ gq.called) => gq.ret # "Err")
    /\ [][cache.some => cache'.some]_vars

C18_Witness ==
    /\ phase = "running"
    /\ cmd.kind = "command"
    /\ gq.called /\ gq.attempts = 1 /\ gq.response = Body(DocTopNull) /\ gq.ret = "panic"
    /\ cache.some

\* C19: a quote that is drawn is rendered: the month lookup of send_quote
\* does not panic, whatever month key the parser admitted.
C19_MonthLookupInTable == (Selected /\ cmd.pick.some) => cmd.outcome # "panic_month"

\* C20: a get_quotes call whose clock reading is before last_request_time
\* attempts no fetch, changes nothing and returns the snapshot it found; and
\* last_request_time never decreases.
C20_ClockStepBackIsFrame ==
    [][/\ (gq'.called /\ gq'.now < last_request_time) =>
             /\ gq'.attempts = 0
             /\ UNCHANGED <<cache, cache_size, last_request_time, request_url, delay>>
             /\ gq'.ret = IF cache.some THEN "Ok" ELSE "Err"
       /\ last_request_time' >= last_request_time]_vars

C20_Witness ==
    /\ cmd.handler = "message"
    /\ gq.called /\ gq.attempts = 0 /\ gq.ret = "Ok"
    /\ delay = 0
    /\ gq.now < last_request_time

\* ------------------------------------------------------------------------
\* The cache over unbounded time
\* ------------------------------------------------------------------------
\* Here the handlers read one advancing clock and the source answers what it
\* answers at present; it may recover for good (healed) and then keeps
\* answering one document with a top-level object.
LiveDocs == {DocHelloWorld, DocBadYear}

LiveResponses == {NetError, Body(DocTopNull)} \cup {Body(d) : d \in LiveDocs}

\* get_quotes uses readings only through duration_since, so once the clock
\* stands at MaxTime the passing of time is the stored readings moving back;
\* a reading at or before TimeFloor is the delay or more ago whatever the
\* delay, and stays.
TimeFloor == MaxTime - MaxDelay

ShiftBack(reading) == IF reading > TimeFloor THEN reading - 1 ELSE reading

InitLive ==
    /\ phase = "start"
    /\ request_url \in {"valid", "invalid"}
    /\ delay \in Delays
    /\ last_request_time = UNIX_EPOCH
    /\ cache = None
    /\ cache_size = 0
    /\ gq = NoCall
    /\ cmd = HandlerRecord("none", "none", NoArgs, "none", NoPayload, <<>>, NoPick)
    /\ attempted = NeverAttempted
    /\ document = JNull
    /\ parsed = NotParsed
    /\ clock \in 0..MaxTime
    /\ source \in [response : LiveResponses, healed : {FALSE}]
    /\ flips = 0
    /\ ThreadsUnused

\* Time passes.
Tick ==
    /\ IF clock < MaxTime
       THEN /\ clock' = clock + 1
            /\ UNCHANGED <<last_request_time, attempted, gq>>
       ELSE /\ clock' = clock
            /\ last_request_time' = ShiftBack(last_request_time)
            /\ attempted' = [attempted EXCEPT !.at = ShiftBack(@)]
            /\ gq' = [gq EXCEPT !.now = ShiftBack(@)]
    /\ UNCHANGED <<phase, request_url, delay, cache, cache_size, cmd, document, parsed,
                   source, flips, threadVars>>

\* The source starts to answer something else, possibly for good.
SourceChanges ==
    /\ ~source.healed
    /\ \/ \E response \in LiveResponses : source' = [response |-> response, healed |-> FALSE]
       \/ \E d \in LiveDocs : source' = [response |-> Body(d), healed |-> TRUE]
    /\ UNCHANGED <<phase, request_url, delay, last_request_time, cache, cache_size,
                   gq, cmd, attempted, document, parsed, clock, flips, threadVars>>

FlipOnAttempt == flips' = IF gq'.attempts = 1 THEN 1 - flips ELSE flips

LiveReady ==
    /\ ReadyAt(clock, {source.response})
    /\ FlipOnAttempt
    /\ UNCHANGED <<clock, source, threadVars>>

LiveCommand ==
    /\ CommandAt(clock, {source.response})
    /\ FlipOnAttempt
    /\ UNCHANGED <<clock, source, threadVars>>

NextLive == LiveReady \/ LiveCommand \/ Tick \/ SourceChanges

\* Time keeps advancing, and commands keep arriving: get_quotes keeps being
\* invoked however long the wait.
SpecLive == InitLive /\ [][NextLive]_vars /\ WF_vars(Tick) /\ []<><<LiveCommand>>_vars

\* C16: after a failed refresh of the running cache, with time advancing and
\* commands arriving, another fetch is attempted; a command attempts a fetch
\* exactly when the delay has passed since the stamp; and once the source
\* answers one well-formed document for good, the snapshot becomes the parse
\* of it.
C16_SelfHealing ==
    /\ [][(phase = "running" /\ cmd' # cmd) =>
             ((flips' # flips) <=> Expired(Self, clock))]_vars
    /\ \A b \in {0, 1} :
          (phase = "running" /\ gq.called /\ FetchFailed(gq) /\ flips = b) ~> (flips = 1 - b)
    /\ (phase = "running" /\ source.healed) ~>
          (cache = Some(parse_quotes(source.response.json).years))

C16_Witness ==
    /\ phase = "running"
    /\ cmd.handler = "message"
    /\ source = [response |-> Body(DocBadYear), healed |-> TRUE]
    /\ gq.called /\ gq.attempts = 1 /\ flips = 1
    /\ delay = MaxDelay
    /\ cache = Some(parse_quotes(DocBadYear).years)

\* ------------------------------------------------------------------------
\* Handlers on the thread pool
\* ------------------------------------------------------------------------
\* The framework dispatches every event to a pool thread; a handler is a
\* sequence of steps that interleave with the steps of the others, and the
\* only synchronisation is ctx.data.lock().  Each message thread handles one
\* matching message of a non-bot author; one more thread handles READY.
MessageThreads == 1..NumMessages

ReadyThread == NumMessages + 1

Threads == MessageThreads \cup {ReadyThread}

ThreadResponses == {NetError, Body(DocTopNull), Body(DocHelloWorld)}

NoParse == [panic |-> FALSE, years |-> <<>>, quote_count |-> 0]

\* pc: where the handler stands; stale: the cache was stale when the event
\* arrived; pending: the message handlers that had arrived and not yet
\* decided then; now: the reading of get_quotes; fetched: the refresh branch
\* was taken; p: the parse result between the fetch and the assignments.
IdleThread ==
    [pc |-> "idle", stale |-> FALSE, pending |-> {}, now |-> 0, fetched |-> FALSE,
     p |-> NoParse, outcome |-> "none"]

\* A mutex that never blocks.
LockAlwaysFree(holder) == TRUE

\* ctx.data.lock() returns once no other thread holds the guard.
LockFree(holder) == holder = 0

InitThreads ==
    /\ phase = "start"
    /\ request_url \in {"valid", "invalid"}
    /\ delay \in Delays
    /\ last_request_time = UNIX_EPOCH
    /\ cache = None
    /\ cache_size = 0
    /\ gq = NoCall
    /\ cmd = HandlerRecord("none", "none", NoArgs, "none", NoPayload, <<>>, NoPick)
    /\ attempted = NeverAttempted
    /\ document = JNull
    /\ parsed = NotParsed
    /\ clock = MaxDelay
    /\ source = SourceUnused
    /\ flips = 0
    /\ lock = 0
    /\ th = [t \in Threads |-> IdleThread]

threadFrame == <<request_url, delay, gq, cmd, document, parsed, source, flips>>

\* The guard is dropped at the end of the handler, and by the unwinding of a
\* panic (the mutex does not poison).
Unlocked(t) == IF lock = t THEN 0 ELSE lock

Finish(t, outcome) ==
    /\ th' = [th EXCEPT ![t].pc = "done", ![t].outcome = outcome, ![t].p = NoParse]
    /\ lock' = Unlocked(t)

\* The system clock advances while the handlers run.
ThreadTick ==
    /\ clock < MaxTime
    /\ clock' = clock + 1
    /\ UNCHANGED <<phase, last_request_time, cache, cache_size, attempted, lock, th,
                   threadFrame>>

\* An event is dispatched to a pool thread; READY is the first of a session.
Arrive(t) ==
    /\ th[t].pc = "idle"
    /\ t \in MessageThreads => th[ReadyThread].pc # "idle"
    /\ th' = [th EXCEPT ![t].pc = "lock",
                        ![t].stale = (t \in MessageThreads /\ phase = "running"
                                      /\ Expired(Self, clock)),
                        ![t].pending = {u \in MessageThreads \ {t} :
                                           th[u].pc \in {"lock", "enter", "check"}}]
    /\ UNCHANGED <<phase, last_request_time, cache, cache_size, attempted, clock, lock,
                   threadFrame>>

\* let mut data = ctx.data.lock();
Acquire(t) ==
    /\ th[t].pc = "lock"
    /\ LockFree(lock)
    /\ lock' = t
    /\ th' = [th EXCEPT ![t].pc = "enter"]
    /\ UNCHANGED <<phase, last_request_time, cache, cache_size, attempted, clock,
                   threadFrame>>

\* Handler::message up to the call of get_quotes: the unwraps of the Prefix
\* and of the QuoteCache panic unless ready has inserted them, then
\* do_command reads cache_size.  Handler::ready builds the QuoteCache.
Enter(t) ==
    /\ th[t].pc = "enter"
    /\ IF t \in MessageThreads /\ phase # "running"
       THEN Finish(t, "panic_no_cache")
       ELSE th' = [th EXCEPT ![t].pc = "check"] /\ UNCHANGED lock
    /\ UNCHANGED <<phase, last_request_time, cache, cache_size, attempted, clock,
                   threadFrame>>

\* get_quotes: let now = SystemTime::now(); and the comparison with the delay.
Check(t) ==
    /\ th[t].pc = "check"
    /\ th' = [th EXCEPT ![t].now = clock,
                        ![t].pc = IF Expired(Self, clock) THEN "stamp" ELSE "return"]
    /\ UNCHANGED <<phase, last_request_time, cache, cache_size, attempted, clock, lock,
                   threadFrame>>

\* self.last_request_time = now; then the URL is parsed for the request.
StampStep(t) ==
    /\ th[t].pc = "stamp"
    /\ last_request_time' = Stamp(Self, th[t].now).last_request_time
    /\ attempted' = [some |-> TRUE, at |-> th[t].now]
    /\ IF UrlParses(request_url)
       THEN th' = [th EXCEPT ![t].pc = "fetch", ![t].fetched = TRUE] /\ UNCHANGED lock
       ELSE /\ th' = [th EXCEPT ![t].pc = "done", ![t].fetched = TRUE,
                                ![t].outcome = "panic_refresh"]
            /\ lock' = Unlocked(t)
    /\ phase' = IF t = ReadyThread /\ ~UrlParses(request_url) THEN "failed" ELSE phase
    /\ UNCHANGED <<cache, cache_size, clock, threadFrame>>

\* perform_request returns, and parse_quotes runs on an Ok(json).
Fetch(t) ==
    /\ th[t].pc = "fetch"
    /\ \E response \in ThreadResponses :
       \E r \in {perform_request(response)} :
          IF r.ok
          THEN \E p \in {parse_quotes(r.json)} :
                  IF p.panic
                  THEN /\ Finish(t, "panic_refresh")
                       /\ phase' = IF t = ReadyThread THEN "failed" ELSE phase
                  ELSE /\ th' = [th EXCEPT ![t].pc = "store_cache", ![t].p = p]
                       /\ UNCHANGED <<lock, phase>>
          ELSE /\ th' = [th EXCEPT ![t].pc = "return"]
               /\ UNCHANGED <<lock, phase>>
    /\ UNCHANGED <<last_request_time, cache, cache_size, attempted, clock, threadFrame>>

\* self.cache = Option::Some(parsed);
StoreCache(t) ==
    /\ th[t].pc = "store_cache"
    /\ cache' = Some(th[t].p.years)
    /\ th' = [th EXCEPT ![t].pc = "store_size"]
    /\ UNCHANGED <<phase, last_request_time, cache_size, attempted, clock, lock,
                   threadFrame>>

\* self.cache_size = size;
StoreSize(t) ==
    /\ th[t].pc = "store_size"
    /\ cache_size' = th[t].p.quote_count
    /\ th' = [th EXCEPT ![t].pc = "return", ![t].p = NoParse]
    /\ UNCHANGED <<phase, last_request_time, cache, attempted, clock, lock, threadFrame>>

\* get_quotes returns what self.cache holds.  ready inserts the QuoteCache or
\* panics; do_command goes on to the draw and the send.  The guard drops.
Return(t) ==
    /\ th[t].pc = "return"
    /\ \E g \in {[self |-> Self, attempts |-> IF th[t].fetched THEN 1 ELSE 0,
                  response |-> NoResponse, ret |-> ResultOf(Self)]} :
          IF t = ReadyThread
          THEN /\ Finish(t, IF g.ret = "Ok" THEN "inserted" ELSE "panic_initial")
               /\ phase' = IF g.ret = "Ok" THEN "running" ELSE "failed"
          ELSE /\ \E args \in Args :
                  \E index \in DrawsFor(g, args), send_ok \in SendsFor(g, args) :
                  \E r \in {do_command(g, args, index, send_ok)} :
                     Finish(t, r.outcome)
               /\ UNCHANGED phase
    /\ UNCHANGED <<last_request_time, cache, cache_size, attempted, clock, threadFrame>>

NextThreads ==
    \/ ThreadTick
    \/ \E t \in Threads :
          \/ Arrive(t)
          \/ Acquire(t)
          \/ Enter(t)
          \/ Check(t)
          \/ StampStep(t)
          \/ Fetch(t)
          \/ StoreCache(t)
          \/ StoreSize(t)
          \/ Return(t)

SpecThreads == InitThreads /\ [][NextThreads]_vars

\* A handler between taking the guard and dropping it.
InHandler(t) == th[t].pc \in {"enter", "check", "stamp", "fetch", "store_cache",
                              "store_size", "return"}

\* A refresh in progress: past the comparison, the count not yet assigned.
Refreshing(t) == th[t].pc \in {"stamp", "fetch", "store_cache", "store_size"}

Done(t) == th[t].pc = "done"

====
